---- MODULE Spec2Model ----
(***************************************************************************)
(* Model of 102316091.py: the audio mashup builder.                        *)
(*                                                                         *)
(*   download_one          retrying fetch of one source                    *)
(*   download_and_convert  search, processing workers, download tasks,     *)
(*                         stop signals, join, final check                 *)
(*   process_one_audio /                                                   *)
(*   process_audios        load + trim every .mp3 of a directory, merge    *)
(*   clean_up              removal of the temporary directory              *)
(*   main                  argument validation                             *)
(*                                                                         *)
(* The functions are driven by a single-threaded caller that either runs   *)
(* main, or calls download_and_convert and then, in any order,             *)
(* process_audios (once) and clean_up.                                     *)
(* The name `duration` read at line 162 is not a local of                  *)
(* download_and_convert: it is looked up in the module's globals, where    *)
(* the file itself never binds it; globalDuration is that binding.         *)
(***************************************************************************)
EXTENDS Naturals, Integers, Sequences, FiniteSets

(* ---------------------------------------------------------------- bounds *)
MaxUrls == 2                \* most sources a search returns in the model
num_process_workers == 2    \* line 159 (11 in the program)
max_workers == 2            \* line 185 (15 in the program)
MaxRetriesBound == 4        \* largest max_retries of a stand-alone download_one call
JitterSteps == 2            \* a second is cut in JitterSteps parts to measure a sleep
ShortClip == 1              \* shortest original clip length, in seconds

DefaultMaxRetries == 3      \* line 10: max_retries=3
TrimSeconds == ShortClip + 1
LongClip == TrimSeconds + 1

Unbound == 0                \* the global name `duration` has no binding
None == 0                   \* the poison pill of line 191
NoLock == 0
NoClip == [path |-> None, duration |-> 0]
NoArgv == [argc |-> 0, ints |-> FALSE, num_videos |-> 0, audio_duration |-> 0]

Outcomes == {"ok", "retryable", "fatal"}
\* What a source answers to its successive fetches (the last answer repeats).
SourceBehaviours ==
    { <<"ok">>, <<"fatal">>, <<"retryable">> }

Workers == 1..num_process_workers
UrlIds == 1..MaxUrls

VARIABLES
    globalDuration,        \* module global `duration`: Unbound or seconds
    dirExists,             \* os.path.exists(output_dir)
    mp3Files,              \* .mp3 files of output_dir, oldest ctime first
    n,                     \* requested number of videos
    urls,                  \* line 113/120: the sources found (each with its behaviour)
    max_retries,           \* parameter of download_one
    jitters,               \* what random.uniform(0, 1) returns, per attempt
    pc,                    \* position of download_and_convert
    error,                 \* exception that left download_and_convert
    file_queue,            \* line 126
    unfinished_tasks,      \* queue.Queue's count of put minus task_done
    processed_clips,       \* line 127
    processing_lock,       \* line 128: holder or NoLock
    successful_downloads,  \* line 129
    download_lock,         \* line 130: holder or NoLock
    started,               \* threads started by the loop of line 161
    wpc, wfile, wclip,     \* process_worker: position, file_path, cut_clip
    submitted,             \* futures submitted at line 186
    dpc,                   \* download_and_queue / download_one: position
    attempt,               \* loop variable of line 67
    fetches,               \* calls of ydl.download made by the task
    download_ok,           \* value returned by download_one ("pending" before)
    latest_file,           \* line 176
    delays,                \* per task: what time.sleep was called with (line 73)
    loaded,                \* per task: the counter as read by line 171
    signalled,             \* None's put by the loop of line 190
    stopsTaken,            \* per worker: None's it has taken
    decodeFailed,          \* some load or trim has raised
    decodedOk,             \* files whose load and trim have succeeded
    openHandles,           \* audio clips opened and not closed
    papc,                  \* position of process_audios
    paError,               \* exception that left process_audios
    audio_files,           \* line 232, the files not yet processed
    clips,                 \* line 233 (resources_to_close holds the same clips)
    final_clip,            \* line 254: the paths merged, in order
    outputWritten,         \* times an output file was written (line 256)
    removals,              \* times shutil.rmtree removed the directory
    mainState,             \* main: "notrun", or how it ended
    argv                   \* what main was started with

pipeVars == << pc, error, file_queue, unfinished_tasks, processed_clips,
               processing_lock, successful_downloads, download_lock, started,
               signalled >>
workerVars == << wpc, wfile, wclip, stopsTaken, decodeFailed, decodedOk >>
taskVars == << submitted, dpc, attempt, fetches, download_ok, latest_file,
               delays, loaded >>
envVars == << globalDuration, dirExists, mp3Files, n, urls, max_retries,
              jitters >>
paVars == << papc, paError, audio_files, clips, final_clip, outputWritten >>
mainVars == << mainState, argv >>
restVars == << paVars, removals, mainVars >>
vars == << envVars, pipeVars, workerVars, taskVars, openHandles, restVars >>

(* --------------------------------------------------------------- helpers *)
\* Answer of source u to the fetch made at 0-based attempt a.
Outcome(u, a) ==
    LET b == urls[u]
    IN  IF a + 1 <= Len(b) THEN b[a + 1] ELSE b[Len(b)]

\* Line 83: '403', 'Forbidden' or 'HTTP Error' in the message.
IsRetryableNever(o) == FALSE
IsRetryable(o) == o = "retryable"

\* A retry test that gives up one attempt early.
CanRetryOneLess(a, m) == a + 2 < m

\* The attempts (0-based) a call of download_one can sleep before.
SleepingAttempts == 1..(MaxRetriesBound - 1)

\* Line 70: if attempt > 0.
SleepsBeforeLate(a) == a > 1
SleepsBefore(a) == a > 0

\* 2 ** a.
RECURSIVE Pow2(_)
Pow2(a) == IF a = 0 THEN 1 ELSE 2 * Pow2(a - 1)

\* Line 71: delay = (2 ** attempt) + random.uniform(0, 1), in parts of a second.
Delay(a) == Pow2(a) * JitterSteps + jitters[a]

\* Lines 70-73: what the task has slept once attempt a has begun.
Slept(u, a) == IF SleepsBefore(a) THEN Append(delays[u], Delay(a)) ELSE delays[u]

\* Line 81: attempt < max_retries - 1.
CanRetry(a, m) == a + 1 < m

\* AudioFileClip(file_path).duration
OrigDuration(f) ==
    IF f % 3 = 1 THEN LongClip ELSE IF f % 3 = 2 THEN ShortClip ELSE TrimSeconds

\* Lines 143-146: duration of cut_clip for a clip of length orig.
CutDurationUncut(orig, d) == orig
CutDuration(orig, d) == IF orig > d THEN d ELSE orig

\* Line 176: max(mp3_files, key=os.path.getctime)
Latest(files) == files[Len(files)]

Running == { u \in UrlIds : dpc[u] \in {"attempt", "lock", "inc", "listdir", "put"} }

\* The stop signals are sent without waiting for the futures.
FuturesDoneNoWait == TRUE

\* Line 187 and the exit of the `with` block: every future is done.
FuturesDone == \A u \in 1..Len(urls) : dpc[u] = "done"

\* A final check that also rejects a single download.
NoDownloadsAtMostOne(count) == count <= 1

\* Line 199.
NoDownloadsNever(count) == FALSE
NoDownloads(count) == count = 0

\* An update of the counter that is lost.
LostIncrement(count) == count

\* Line 171: successful_downloads += 1.
Incremented(count) == count + 1

\* A merge that does not test for clips.
HasClipsAlways(cs) == TRUE

\* Line 252: `if clips`.
HasClips(cs) == cs # << >>

\* download_and_convert has returned or raised and the caller is not inside
\* process_audios.
CallerFree ==
    /\ pc \in {"returned", "raised"}
    /\ papc \in {"idle", "returned", "raised"}

(* ------------------------------------------------------------------ Init *)
InitPipe ==
    /\ pc = "idle"
    /\ error = "none"
    /\ file_queue = << >>
    /\ unfinished_tasks = 0
    /\ processed_clips = << >>
    /\ processing_lock = NoLock
    /\ successful_downloads = 0
    /\ download_lock = NoLock
    /\ started = 0
    /\ signalled = 0
    /\ wpc = [w \in Workers |-> "unstarted"]
    /\ wfile = [w \in Workers |-> None]
    /\ wclip = [w \in Workers |-> NoClip]
    /\ submitted = 0
    /\ dpc = [u \in UrlIds |-> "unsubmitted"]
    /\ attempt = [u \in UrlIds |-> 0]
    /\ fetches = [u \in UrlIds |-> 0]
    /\ download_ok = [u \in UrlIds |-> "pending"]
    /\ latest_file = [u \in UrlIds |-> None]
    /\ delays = [u \in UrlIds |-> << >>]
    /\ loaded = [u \in UrlIds |-> 0]
    /\ stopsTaken = [w \in Workers |-> 0]
    /\ decodeFailed = FALSE
    /\ decodedOk = 0
    /\ openHandles = 0
    /\ papc = "idle"
    /\ paError = "none"
    /\ audio_files = { }
    /\ clips = << >>
    /\ final_clip = << >>
    /\ outputWritten = 0
    /\ removals = 0
    /\ mainState = "notrun"
    /\ argv = NoArgv

Init ==
    /\ globalDuration \in {Unbound, TrimSeconds}
    /\ dirExists \in BOOLEAN
    /\ mp3Files = << >>
    /\ n \in 1..MaxUrls
    /\ urls = << >>
    /\ max_retries = DefaultMaxRetries
    /\ jitters = [a \in SleepingAttempts |-> a % JitterSteps]
    /\ InitPipe

(* ------------------------------------------------- download_and_convert *)
\* Lines 96-103: the call; the directory is created when missing.
CallDownloadAndConvert ==
    /\ UNCHANGED restVars
    /\ pc = "idle"
    /\ mainState = "notrun"
    /\ pc' = "search"
    /\ dirExists' = TRUE
    /\ UNCHANGED << globalDuration, mp3Files, n, urls, max_retries, jitters >>
    /\ UNCHANGED << error, file_queue, unfinished_tasks, processed_clips,
                    processing_lock, successful_downloads, download_lock,
                    started, signalled >>
    /\ UNCHANGED << workerVars, taskVars, openHandles >>

\* Lines 117-120: the search answers with at most n entries.
SearchReturns ==
    /\ UNCHANGED restVars
    /\ pc = "search"
    /\ \E k \in 0..n : \E found \in [1..k -> SourceBehaviours] : urls' = found
    /\ pc' = "start_workers"
    /\ UNCHANGED << globalDuration, dirExists, mp3Files, n, max_retries,
                    jitters >>
    /\ UNCHANGED << error, file_queue, unfinished_tasks, processed_clips,
                    processing_lock, successful_downloads, download_lock,
                    started, signalled >>
    /\ UNCHANGED << workerVars, taskVars, openHandles >>

\* Lines 117-118 raise; lines 205-207 print and re-raise.
SearchRaises ==
    /\ UNCHANGED restVars
    /\ pc = "search"
    /\ pc' = "raised"
    /\ error' = "SearchError"
    /\ UNCHANGED << envVars, file_queue, unfinished_tasks, processed_clips,
                    processing_lock, successful_downloads, download_lock,
                    started, signalled >>
    /\ UNCHANGED << workerVars, taskVars, openHandles >>

\* Lines 161-164, one iteration: args=(duration,) is evaluated, then the
\* thread is started.
StartWorker ==
    /\ UNCHANGED restVars
    /\ pc = "start_workers"
    /\ started < num_process_workers
    /\ globalDuration # Unbound
    /\ started' = started + 1
    /\ wpc' = [wpc EXCEPT ![started + 1] = "get"]
    /\ UNCHANGED << envVars, pc, error, file_queue, unfinished_tasks,
                    processed_clips, processing_lock, successful_downloads,
                    download_lock, signalled >>
    /\ UNCHANGED << wfile, wclip, stopsTaken, decodeFailed, decodedOk >>
    /\ UNCHANGED << taskVars, openHandles >>

\* Line 162 with `duration` unbound: NameError, caught at 205, re-raised.
StartWorkerNameError ==
    /\ UNCHANGED restVars
    /\ pc = "start_workers"
    /\ started < num_process_workers
    /\ globalDuration = Unbound
    /\ pc' = "raised"
    /\ error' = "NameError"
    /\ UNCHANGED << envVars, file_queue, unfinished_tasks, processed_clips,
                    processing_lock, successful_downloads, download_lock,
                    started, signalled >>
    /\ UNCHANGED << workerVars, taskVars, openHandles >>

\* Lines 161-164: the loop over range(num_process_workers) has run out.
WorkersStartedEarly == TRUE
WorkersStarted == started = num_process_workers

\* Line 185: the executor is created once every worker thread runs.
OpenExecutor ==
    /\ UNCHANGED restVars
    /\ pc = "start_workers"
    /\ WorkersStarted
    /\ pc' = "submit"
    /\ UNCHANGED << envVars, error, file_queue, unfinished_tasks,
                    processed_clips, processing_lock, successful_downloads,
                    download_lock, started, signalled >>
    /\ UNCHANGED << workerVars, taskVars, openHandles >>

\* Line 186, one executor.submit.
Submit ==
    /\ UNCHANGED restVars
    /\ pc = "submit"
    /\ submitted < Len(urls)
    /\ submitted' = submitted + 1
    /\ dpc' = [dpc EXCEPT ![submitted + 1] = "pending"]
    /\ UNCHANGED << envVars, pipeVars, workerVars, openHandles >>
    /\ UNCHANGED << attempt, fetches, download_ok, latest_file, delays, loaded >>

\* Line 187 and the end of the `with` block of line 185.
WaitFutures ==
    /\ UNCHANGED restVars
    /\ pc = "submit"
    /\ submitted = Len(urls)
    /\ FuturesDone
    /\ pc' = "signal"
    /\ UNCHANGED << envVars, error, file_queue, unfinished_tasks,
                    processed_clips, processing_lock, successful_downloads,
                    download_lock, started, signalled >>
    /\ UNCHANGED << workerVars, taskVars, openHandles >>

\* Line 190: range(num_process_workers), one stop signal for each worker.
StopSignalsOneLess == num_process_workers - 1
StopSignals == num_process_workers

\* Lines 190-191, one iteration.
SignalStop ==
    /\ UNCHANGED restVars
    /\ pc = "signal"
    /\ signalled < StopSignals
    /\ file_queue' = Append(file_queue, None)
    /\ unfinished_tasks' = unfinished_tasks + 1
    /\ signalled' = signalled + 1
    /\ UNCHANGED << envVars, pc, error, processed_clips, processing_lock,
                    successful_downloads, download_lock, started >>
    /\ UNCHANGED << workerVars, taskVars, openHandles >>

\* Lines 194-195: every thread is joined.
JoinWorkers ==
    /\ UNCHANGED restVars
    /\ pc = "signal"
    /\ signalled = StopSignals
    /\ \A w \in Workers : wpc[w] = "exited"
    /\ pc' = "check"
    /\ UNCHANGED << envVars, error, file_queue, unfinished_tasks,
                    processed_clips, processing_lock, successful_downloads,
                    download_lock, started, signalled >>
    /\ UNCHANGED << workerVars, taskVars, openHandles >>

\* Lines 197-207: raise when nothing was downloaded, else return.
FinalCheck ==
    /\ UNCHANGED restVars
    /\ pc = "check"
    /\ IF NoDownloads(successful_downloads)
         THEN pc' = "raised" /\ error' = "NoDownloads"
         ELSE pc' = "returned" /\ error' = error
    /\ UNCHANGED << envVars, file_queue, unfinished_tasks, processed_clips,
                    processing_lock, successful_downloads, download_lock,
                    started, signalled >>
    /\ UNCHANGED << workerVars, taskVars, openHandles >>

Orchestrator ==
    \/ CallDownloadAndConvert
    \/ SearchReturns
    \/ SearchRaises
    \/ StartWorker
    \/ StartWorkerNameError
    \/ OpenExecutor
    \/ Submit
    \/ WaitFutures
    \/ SignalStop
    \/ JoinWorkers
    \/ FinalCheck

(* ------------------------------------- download_one, download_and_queue *)
\* A free executor thread takes the oldest pending task: line 169 calls
\* download_one (lines 10-66 build the options).
TaskStart(u) ==
    /\ UNCHANGED restVars
    /\ dpc[u] = "pending"
    /\ \A v \in 1..(u - 1) : dpc[v] # "pending"
    /\ Cardinality(Running) < max_workers
    /\ dpc' = [dpc EXCEPT ![u] = "attempt"]
    /\ UNCHANGED << envVars, pipeVars, workerVars, openHandles >>
    /\ UNCHANGED << submitted, attempt, fetches, download_ok, latest_file, delays, loaded >>

\* Lines 67-77: the fetch succeeds, the .mp3 is written, return True.
FetchOk(u) ==
    /\ UNCHANGED restVars
    /\ dpc[u] = "attempt"
    /\ attempt[u] < max_retries
    /\ Outcome(u, attempt[u]) = "ok"
    /\ fetches' = [fetches EXCEPT ![u] = @ + 1]
    /\ mp3Files' = Append(mp3Files, u)
    /\ download_ok' = [download_ok EXCEPT ![u] = "True"]
    /\ dpc' = [dpc EXCEPT ![u] = "lock"]
    /\ delays' = [delays EXCEPT ![u] = Slept(u, attempt[u])]
    /\ UNCHANGED << globalDuration, dirExists, n, urls, max_retries, jitters >>
    /\ UNCHANGED << pipeVars, workerVars, openHandles >>
    /\ UNCHANGED << submitted, attempt, latest_file, loaded >>

\* Lines 79-85: a retryable failure before the last attempt: continue.
FetchRetry(u) ==
    /\ UNCHANGED restVars
    /\ dpc[u] = "attempt"
    /\ attempt[u] < max_retries
    /\ Outcome(u, attempt[u]) # "ok"
    /\ CanRetry(attempt[u], max_retries)
    /\ IsRetryable(Outcome(u, attempt[u]))
    /\ fetches' = [fetches EXCEPT ![u] = @ + 1]
    /\ attempt' = [attempt EXCEPT ![u] = @ + 1]
    /\ delays' = [delays EXCEPT ![u] = Slept(u, attempt[u])]
    /\ UNCHANGED << envVars, pipeVars, workerVars, openHandles >>
    /\ UNCHANGED << submitted, dpc, download_ok, latest_file, loaded >>

\* A failure path that counts the download all the same.
ReturnFalseCounts(u) ==
    /\ UNCHANGED restVars
    /\ download_ok' = [download_ok EXCEPT ![u] = "False"]
    /\ dpc' = [dpc EXCEPT ![u] = "done"]
    /\ successful_downloads' = successful_downloads + 1
    /\ UNCHANGED << envVars, pc, error, file_queue, unfinished_tasks,
                    processed_clips, processing_lock, download_lock, started,
                    signalled >>
    /\ UNCHANGED << workerVars, openHandles >>
    /\ UNCHANGED << submitted, attempt, latest_file, loaded >>

\* download_one returns False; download_and_queue prints and returns False
\* (lines 180-182).
ReturnFalse(u) ==
    /\ UNCHANGED restVars
    /\ download_ok' = [download_ok EXCEPT ![u] = "False"]
    /\ dpc' = [dpc EXCEPT ![u] = "done"]
    /\ UNCHANGED << envVars, pipeVars, workerVars, openHandles >>
    /\ UNCHANGED << submitted, attempt, latest_file, loaded >>

\* Lines 86-89: a non-retryable failure before the last attempt.
FetchFatal(u) ==
    /\ dpc[u] = "attempt"
    /\ attempt[u] < max_retries
    /\ Outcome(u, attempt[u]) # "ok"
    /\ CanRetry(attempt[u], max_retries)
    /\ ~IsRetryable(Outcome(u, attempt[u]))
    /\ fetches' = [fetches EXCEPT ![u] = @ + 1]
    /\ delays' = [delays EXCEPT ![u] = Slept(u, attempt[u])]
    /\ ReturnFalse(u)

\* Lines 90-92: any failure of the last attempt.
FetchExhausted(u) ==
    /\ dpc[u] = "attempt"
    /\ attempt[u] < max_retries
    /\ Outcome(u, attempt[u]) # "ok"
    /\ ~CanRetry(attempt[u], max_retries)
    /\ fetches' = [fetches EXCEPT ![u] = @ + 1]
    /\ delays' = [delays EXCEPT ![u] = Slept(u, attempt[u])]
    /\ ReturnFalse(u)

\* Line 94: range(max_retries) is empty.
NoAttempt(u) ==
    /\ dpc[u] = "attempt"
    /\ max_retries = 0
    /\ UNCHANGED << fetches, delays >>
    /\ ReturnFalse(u)

\* Lines 148 and 170: `with lock:` goes on once no thread holds the lock.
LockIgnored(holder) == TRUE
LockFree(holder) == holder = NoLock

\* Lines 170-171: download_lock is acquired and, for +=, the counter is read.
AcquireDownloadLock(u) ==
    /\ UNCHANGED restVars
    /\ dpc[u] = "lock"
    /\ LockFree(download_lock)
    /\ download_lock' = u
    /\ loaded' = [loaded EXCEPT ![u] = successful_downloads]
    /\ dpc' = [dpc EXCEPT ![u] = "inc"]
    /\ UNCHANGED << envVars, pc, error, file_queue, unfinished_tasks,
                    processed_clips, processing_lock, successful_downloads,
                    started, signalled >>
    /\ UNCHANGED << workerVars, openHandles >>
    /\ UNCHANGED << submitted, attempt, fetches, download_ok, latest_file, delays >>

\* Line 171: the sum is stored; the lock is released.
CountDownload(u) ==
    /\ UNCHANGED restVars
    /\ dpc[u] = "inc"
    /\ successful_downloads' = Incremented(loaded[u])
    /\ loaded' = [loaded EXCEPT ![u] = 0]
    /\ download_lock' = NoLock
    /\ dpc' = [dpc EXCEPT ![u] = "listdir"]
    /\ UNCHANGED << envVars, pc, error, file_queue, unfinished_tasks,
                    processed_clips, processing_lock, started, signalled >>
    /\ UNCHANGED << workerVars, openHandles >>
    /\ UNCHANGED << submitted, attempt, fetches, download_ok, latest_file, delays >>

\* Lines 173-176: the directory is listed and the most recent .mp3 chosen.
FindLatest(u) ==
    /\ UNCHANGED restVars
    /\ dpc[u] = "listdir"
    /\ IF mp3Files # << >>
         THEN /\ latest_file' = [latest_file EXCEPT ![u] = Latest(mp3Files)]
              /\ dpc' = [dpc EXCEPT ![u] = "put"]
         ELSE /\ latest_file' = latest_file
              /\ dpc' = [dpc EXCEPT ![u] = "done"]
    /\ UNCHANGED << envVars, pipeVars, workerVars, openHandles >>
    /\ UNCHANGED << submitted, attempt, fetches, download_ok, delays, loaded >>

\* Lines 177-179: the chosen path is queued; return True.
PutFile(u) ==
    /\ UNCHANGED restVars
    /\ dpc[u] = "put"
    /\ file_queue' = Append(file_queue, latest_file[u])
    /\ unfinished_tasks' = unfinished_tasks + 1
    /\ dpc' = [dpc EXCEPT ![u] = "done"]
    /\ UNCHANGED << envVars, pc, error, processed_clips, processing_lock,
                    successful_downloads, download_lock, started, signalled >>
    /\ UNCHANGED << workerVars, openHandles >>
    /\ UNCHANGED << submitted, attempt, fetches, download_ok, latest_file, delays, loaded >>

DownloadOne(u) ==
    \/ FetchOk(u)
    \/ FetchRetry(u)
    \/ FetchFatal(u)
    \/ FetchExhausted(u)

DownloadTask(u) ==
    \/ TaskStart(u)
    \/ DownloadOne(u)
    \/ AcquireDownloadLock(u)
    \/ CountDownload(u)
    \/ FindLatest(u)
    \/ PutFile(u)

(* -------------------------------------------------------- process_worker *)
\* Lines 136-140: a file path is taken from the queue.
WorkerGetFile(w) ==
    /\ UNCHANGED restVars
    /\ wpc[w] = "get"
    /\ file_queue # << >>
    /\ Head(file_queue) # None
    /\ file_queue' = Tail(file_queue)
    /\ wfile' = [wfile EXCEPT ![w] = Head(file_queue)]
    /\ wpc' = [wpc EXCEPT ![w] = "load"]
    /\ UNCHANGED << envVars, pc, error, unfinished_tasks, processed_clips,
                    processing_lock, successful_downloads, download_lock,
                    started, signalled >>
    /\ UNCHANGED << decodedOk, wclip, stopsTaken, decodeFailed, taskVars, openHandles >>

\* Lines 136-138: the poison pill is taken: break.
WorkerGetStop(w) ==
    /\ UNCHANGED restVars
    /\ wpc[w] = "get"
    /\ file_queue # << >>
    /\ Head(file_queue) = None
    /\ file_queue' = Tail(file_queue)
    /\ stopsTaken' = [stopsTaken EXCEPT ![w] = @ + 1]
    /\ wpc' = [wpc EXCEPT ![w] = "exited"]
    /\ UNCHANGED << envVars, pc, error, unfinished_tasks, processed_clips,
                    processing_lock, successful_downloads, download_lock,
                    started, signalled >>
    /\ UNCHANGED << decodedOk, wfile, wclip, decodeFailed, taskVars, openHandles >>

\* A worker that leaves its loop when the queue stays empty.
AfterEmptyExits(w) == "exited"

\* Position of a worker after it caught queue.Empty (line 156: continue).
AfterEmpty(w) == "get"

\* Lines 136, 155-156: the queue stayed empty for the timeout; queue.Empty
\* is caught and the loop continues.
WorkerTimeout(w) ==
    /\ UNCHANGED restVars
    /\ wpc[w] = "get"
    /\ file_queue = << >>
    /\ wpc' = [wpc EXCEPT ![w] = AfterEmpty(w)]
    /\ UNCHANGED << envVars, pipeVars, taskVars, openHandles >>
    /\ UNCHANGED << wfile, wclip, stopsTaken, decodeFailed, decodedOk >>

\* Lines 142-146: the clip is loaded and cut (or kept whole).
WorkerLoad(w) ==
    /\ UNCHANGED restVars
    /\ wpc[w] = "load"
    /\ openHandles' = openHandles + 1
    /\ wclip' = [wclip EXCEPT ![w] =
                    [path |-> wfile[w],
                     duration |-> CutDuration(OrigDuration(wfile[w]), globalDuration)]]
    /\ wpc' = [wpc EXCEPT ![w] = "lock"]
    /\ decodedOk' = decodedOk + 1
    /\ UNCHANGED << envVars, pipeVars, taskVars >>
    /\ UNCHANGED << wfile, stopsTaken, decodeFailed >>

\* Lines 151-154: the except clause prints, finally calls task_done, and the
\* loop of line 133 goes on.
AfterErrorExits(w) == "exited"
AfterError(w) == "get"

\* Lines 142, 151-154: AudioFileClip raises; the error is printed, task_done.
WorkerLoadFails(w) ==
    /\ UNCHANGED restVars
    /\ wpc[w] = "load"
    /\ decodeFailed' = TRUE
    /\ unfinished_tasks' = unfinished_tasks - 1
    /\ wpc' = [wpc EXCEPT ![w] = AfterError(w)]
    /\ UNCHANGED << envVars, pc, error, file_queue, processed_clips,
                    processing_lock, successful_downloads, download_lock,
                    started, signalled >>
    /\ UNCHANGED << decodedOk, wfile, wclip, stopsTaken, taskVars, openHandles >>

\* Lines 142-144, 151-154: the clip is loaded, subclipped raises; the loaded
\* clip is dropped without close.
WorkerTrimFails(w) ==
    /\ UNCHANGED restVars
    /\ wpc[w] = "load"
    /\ OrigDuration(wfile[w]) > globalDuration
    /\ openHandles' = openHandles + 1
    /\ decodeFailed' = TRUE
    /\ unfinished_tasks' = unfinished_tasks - 1
    /\ wpc' = [wpc EXCEPT ![w] = AfterError(w)]
    /\ UNCHANGED << envVars, pc, error, file_queue, processed_clips,
                    processing_lock, successful_downloads, download_lock,
                    started, signalled >>
    /\ UNCHANGED << decodedOk, wfile, wclip, stopsTaken, taskVars >>

\* Line 148: processing_lock is acquired.
AcquireProcessingLock(w) ==
    /\ UNCHANGED restVars
    /\ wpc[w] = "lock"
    /\ LockFree(processing_lock)
    /\ processing_lock' = w
    /\ wpc' = [wpc EXCEPT ![w] = "append"]
    /\ UNCHANGED << envVars, pc, error, file_queue, unfinished_tasks,
                    processed_clips, successful_downloads, download_lock,
                    started, signalled >>
    /\ UNCHANGED << wfile, wclip, stopsTaken, decodeFailed, decodedOk >>
    /\ UNCHANGED << taskVars, openHandles >>

\* Lines 149-154: append, release of the lock, print, task_done.
WorkerAppend(w) ==
    /\ UNCHANGED restVars
    /\ wpc[w] = "append"
    /\ processed_clips' = Append(processed_clips, wclip[w])
    /\ processing_lock' = NoLock
    /\ unfinished_tasks' = unfinished_tasks - 1
    /\ wpc' = [wpc EXCEPT ![w] = "get"]
    /\ UNCHANGED << envVars, pc, error, file_queue, successful_downloads,
                    download_lock, started, signalled >>
    /\ UNCHANGED << wfile, wclip, stopsTaken, decodeFailed, decodedOk >>
    /\ UNCHANGED << taskVars, openHandles >>

ProcessWorker(w) ==
    \/ WorkerGetFile(w)
    \/ WorkerGetStop(w)
    \/ WorkerTimeout(w)
    \/ WorkerLoad(w)
    \/ WorkerLoadFails(w)
    \/ WorkerTrimFails(w)
    \/ AcquireProcessingLock(w)
    \/ WorkerAppend(w)

(* ------------------------------------ process_one_audio, process_audios *)
\* Lines 226-234: the call; os.listdir raises when the directory is missing.
CallProcessAudios ==
    /\ papc = "idle"
    /\ CallerFree
    /\ IF dirExists
         THEN /\ audio_files' = { mp3Files[i] : i \in 1..Len(mp3Files) }
              /\ papc' = "load"
              /\ paError' = paError
         ELSE /\ audio_files' = audio_files
              /\ papc' = "raised"
              /\ paError' = "FileNotFoundError"
    /\ UNCHANGED << clips, final_clip, outputWritten, removals, mainVars >>
    /\ UNCHANGED << envVars, pipeVars, workerVars, taskVars, openHandles >>

\* Lines 216-221 and 245-249: a file is loaded and cut; its clip is collected.
AudioLoaded(f) ==
    /\ papc = "load"
    /\ f \in audio_files
    /\ audio_files' = audio_files \ {f}
    /\ openHandles' = openHandles + 1
    /\ clips' = Append(clips, [path |-> f,
                               duration |-> CutDuration(OrigDuration(f), TrimSeconds)])
    /\ UNCHANGED << papc, paError, final_clip, outputWritten, removals, mainVars >>
    /\ UNCHANGED << envVars, pipeVars, workerVars, taskVars >>

\* Lines 217, 222-224: AudioFileClip raises; process_one_audio returns None.
AudioLoadFails(f) ==
    /\ papc = "load"
    /\ f \in audio_files
    /\ audio_files' = audio_files \ {f}
    /\ UNCHANGED << papc, paError, clips, final_clip, outputWritten, removals, mainVars >>
    /\ UNCHANGED << envVars, pipeVars, workerVars, taskVars, openHandles >>

\* Lines 217-219, 222-224: the clip is loaded, subclipped raises; None is
\* returned and the loaded clip is dropped without close.
AudioTrimFails(f) ==
    /\ papc = "load"
    /\ f \in audio_files
    /\ OrigDuration(f) > TrimSeconds
    /\ audio_files' = audio_files \ {f}
    /\ openHandles' = openHandles + 1
    /\ UNCHANGED << papc, paError, clips, final_clip, outputWritten, removals, mainVars >>
    /\ UNCHANGED << envVars, pipeVars, workerVars, taskVars >>

\* Lines 251-257, 261-267: the clips are merged and written, then every
\* resource (the clips and the merged clip) is closed.
MergeAndWrite ==
    /\ papc = "load"
    /\ audio_files = { }
    /\ HasClips(clips)
    /\ final_clip' = [i \in 1..Len(clips) |-> clips[i].path]
    /\ outputWritten' = outputWritten + 1
    /\ openHandles' = openHandles - Len(clips)
    /\ papc' = "returned"
    /\ UNCHANGED << paError, audio_files, clips, removals, mainVars >>
    /\ UNCHANGED << envVars, pipeVars, workerVars, taskVars >>

\* Lines 254, 261-267: concatenate_audioclips raises; the clips are closed.
ConcatRaises ==
    /\ papc = "load"
    /\ audio_files = { }
    /\ HasClips(clips)
    /\ openHandles' = openHandles - Len(clips)
    /\ papc' = "raised"
    /\ paError' = "ConcatError"
    /\ UNCHANGED << audio_files, clips, final_clip, outputWritten, removals, mainVars >>
    /\ UNCHANGED << envVars, pipeVars, workerVars, taskVars >>

\* Lines 254-256, 261-267: write_audiofile raises; the clips and the merged
\* clip are closed.
WriteRaises ==
    /\ papc = "load"
    /\ audio_files = { }
    /\ HasClips(clips)
    /\ final_clip' = [i \in 1..Len(clips) |-> clips[i].path]
    /\ openHandles' = openHandles - Len(clips)
    /\ papc' = "raised"
    /\ paError' = "WriteError"
    /\ UNCHANGED << audio_files, clips, outputWritten, removals, mainVars >>
    /\ UNCHANGED << envVars, pipeVars, workerVars, taskVars >>

\* Lines 258-259: nothing to merge; a message is printed, the call returns.
NothingToMerge ==
    /\ papc = "load"
    /\ audio_files = { }
    /\ ~HasClips(clips)
    /\ papc' = "returned"
    /\ UNCHANGED << paError, audio_files, clips, final_clip, outputWritten,
                    removals, mainVars >>
    /\ UNCHANGED << envVars, pipeVars, workerVars, taskVars, openHandles >>

ProcessAudios ==
    \/ CallProcessAudios
    \/ \E f \in UrlIds : AudioLoaded(f) \/ AudioLoadFails(f) \/ AudioTrimFails(f)
    \/ MergeAndWrite
    \/ ConcatRaises
    \/ WriteRaises
    \/ NothingToMerge

(* ---------------------------------------------------------------- clean_up *)
\* Lines 269-275.
CleanUp ==
    /\ CallerFree
    /\ IF dirExists
         THEN /\ dirExists' = FALSE
              /\ mp3Files' = << >>
              /\ removals' = removals + 1
         ELSE UNCHANGED << dirExists, mp3Files, removals >>
    /\ UNCHANGED << globalDuration, n, urls, max_retries, jitters >>
    /\ UNCHANGED << pipeVars, workerVars, taskVars, openHandles, paVars, mainVars >>

(* -------------------------------------------------------------------- main *)
\* The process is started as a script and nothing has been called yet.
Fresh == pc = "idle" /\ mainState = "notrun"

MainEnds(how, args) ==
    /\ Fresh
    /\ mainState' = how
    /\ argv' = args
    /\ UNCHANGED << envVars, pipeVars, workerVars, taskVars, openHandles,
                    paVars, removals >>

\* sys.argv as main reads it: its length, whether int() accepts both numeric
\* parameters, and the two numbers around the limits of lines 295 and 299.
ArgvChoices ==
    [argc : {4, 5, 6}, ints : BOOLEAN, num_videos : {10, 11},
     audio_duration : {19, 20}]

\* Line 280.
WrongCount(argc) == argc # 5

\* Line 295.
TooFewVideosOff(k) == k < 10
TooFewVideos(k) == k <= 10

\* Line 299.
TooShort(d) == d < 20

\* Lines 280-282: wrong number of parameters.
MainUsage ==
    \E a \in ArgvChoices :
        /\ WrongCount(a.argc)
        /\ MainEnds("exit1", a)

\* Lines 285-290: a parameter is no integer.
MainNotIntegers ==
    \E a \in ArgvChoices :
        /\ ~WrongCount(a.argc)
        /\ ~a.ints
        /\ MainEnds("exit1", a)

\* Lines 295-297.
MainTooFewVideos ==
    \E a \in ArgvChoices :
        /\ ~WrongCount(a.argc)
        /\ a.ints
        /\ TooFewVideos(a.num_videos)
        /\ MainEnds("exit1", a)

\* Lines 299-301.
MainTooShort ==
    \E a \in ArgvChoices :
        /\ ~WrongCount(a.argc)
        /\ a.ints
        /\ ~TooFewVideos(a.num_videos)
        /\ TooShort(a.audio_duration)
        /\ MainEnds("exit1", a)

\* Line 303: main, which takes no parameter, is called with four: TypeError.
MainCallsMain ==
    \E a \in ArgvChoices :
        /\ ~WrongCount(a.argc)
        /\ a.ints
        /\ ~TooFewVideos(a.num_videos)
        /\ ~TooShort(a.audio_duration)
        /\ MainEnds("TypeError", a)

Main ==
    \/ MainUsage
    \/ MainNotIntegers
    \/ MainTooFewVideos
    \/ MainTooShort
    \/ MainCallsMain

(* --------------------------------------------------------- specifications *)
Next ==
    \/ Orchestrator
    \/ \E u \in UrlIds : DownloadTask(u)
    \/ \E w \in Workers : ProcessWorker(w)
    \/ ProcessAudios
    \/ CleanUp
    \/ Main

Spec == Init /\ [][Next]_vars

\* One call of download_and_convert under fair scheduling: while some thread
\* can take a step, the interpreter runs one, and every library call (search,
\* fetch, load, cut, lock, queue) returns.
NextPipeline ==
    \/ Orchestrator
    \/ \E u \in UrlIds : DownloadTask(u)
    \/ \E w \in Workers : ProcessWorker(w)

Fairness == WF_vars(NextPipeline)

SpecFair == Init /\ [][NextPipeline]_vars /\ Fairness

\* A stand-alone call download_one(url, output_dir, max_retries).
RECURSIVE SeqsUpTo(_)
SeqsUpTo(k) ==
    IF k = 0 THEN { }
    ELSE SeqsUpTo(k - 1) \cup [1..k -> Outcomes]

InitRetry ==
    /\ globalDuration = Unbound
    /\ dirExists = TRUE
    /\ mp3Files = << >>
    /\ n = 1
    /\ \E b \in SeqsUpTo(MaxRetriesBound) : urls = << b >>
    /\ max_retries \in 0..MaxRetriesBound
    /\ jitters \in [SleepingAttempts -> 0..(JitterSteps - 1)]
    /\ InitPipe

CallDownloadOne ==
    /\ UNCHANGED restVars
    /\ pc = "idle"
    /\ dpc[1] = "unsubmitted"
    /\ dpc' = [dpc EXCEPT ![1] = "attempt"]
    /\ UNCHANGED << envVars, pipeVars, workerVars, openHandles >>
    /\ UNCHANGED << submitted, attempt, fetches, download_ok, latest_file, delays, loaded >>

NextRetry ==
    \/ CallDownloadOne
    \/ DownloadOne(1)
    \/ NoAttempt(1)

SpecRetry == InitRetry /\ [][NextRetry]_vars

(* ------------------------------------------------------------ properties *)
Sources == 1..Len(urls)
DacEnded == pc \in {"returned", "raised"}
PaEnded == papc \in {"returned", "raised"}
AllWorkersExited == \A w \in Workers : wpc[w] = "exited"
AllTasksDone == \A u \in Sources : dpc[u] = "done"

\* Number of download tasks that have put file f on file_queue.
TimesQueued(f) ==
    Cardinality({ u \in Sources : dpc[u] = "done" /\ latest_file[u] = f })

\* C1: once every download task has returned, every file written by a
\* successful download_one has been put on file_queue exactly once (none is
\* lost, none is queued twice), whatever the interleaving of the tasks.
C1_EveryDownloadQueuedOnce ==
    AllTasksDone =>
        \A u \in Sources : download_ok[u] = "True" => TimesQueued(u) = 1

\* C2: a stop signal is put only after every download task has returned, no
\* file path follows a stop signal in the queue, and the signal loop puts
\* exactly num_process_workers of them.
C2_StopsAfterDownloads ==
    /\ signalled > 0 =>
          /\ submitted = Len(urls)
          /\ \A u \in Sources : dpc[u] = "done"
    /\ \A i, j \in 1..Len(file_queue) :
          (i < j /\ file_queue[i] = None) => file_queue[j] = None
    /\ signalled <= num_process_workers
    /\ (pc \in {"check", "returned"} \/ error = "NoDownloads") =>
          signalled = num_process_workers

C2_Witness ==
    /\ pc = "returned"
    /\ signalled = num_process_workers
    /\ \E u \in Sources : download_ok[u] = "True"
    /\ \E u \in Sources : download_ok[u] = "False"

\* C3: a worker that has exited has taken exactly one stop signal (it leaves
\* neither on an empty queue nor on a processing error), no worker takes more
\* than one, and once every worker has exited no file path is left queued.
C3_ExitOnlyOnStop ==
    /\ \A w \in Workers : wpc[w] = "exited" => stopsTaken[w] = 1
    /\ \A w \in Workers : stopsTaken[w] <= 1
    /\ AllWorkersExited => file_queue = << >>

C3_Witness ==
    /\ AllWorkersExited
    /\ decodeFailed
    /\ processed_clips # << >>

\* The source of the stand-alone call fails retryably exactly k times, then
\* succeeds.
RetryableThenOk(k) ==
    /\ \A a \in 0..(k - 1) : Outcome(1, a) = "retryable"
    /\ Outcome(1, k) = "ok"

AlwaysFatal == \A a \in 0..(max_retries - 1) : Outcome(1, a) = "fatal"

\* C4: when download_one has returned, with max_retries >= 1: a source that
\* fails retryably k < max_retries times and then succeeds gave True after
\* exactly k+1 fetches; a source that always fails fatally gave False after
\* exactly one fetch.
C4_RetryCounts ==
    (download_ok[1] # "pending" /\ max_retries >= 1) =>
        /\ \A k \in 0..(max_retries - 1) :
              RetryableThenOk(k) =>
                  (download_ok[1] = "True" /\ fetches[1] = k + 1)
        /\ AlwaysFatal => (download_ok[1] = "False" /\ fetches[1] = 1)

C4_Witness ==
    /\ download_ok[1] = "True"
    /\ fetches[1] = 3
    /\ RetryableThenOk(2)

\* Source u answers a call of download_one with success: it fails retryably
\* fewer than max_retries times and then succeeds.
WouldSucceed(u) ==
    \E k \in 0..(max_retries - 1) :
        /\ \A a \in 0..(k - 1) : Outcome(u, a) = "retryable"
        /\ Outcome(u, k) = "ok"

GoodSources == { u \in Sources : WouldSucceed(u) }

\* C5: a run of download_and_convert over resolved sources of which s >= 1
\* can be downloaded and the others fail permanently, with no decode failure,
\* returns without raising, with successful_downloads = s and
\* len(processed_clips) = s.
C5_PartialFailureCompletes ==
    (DacEnded /\ error # "SearchError" /\ GoodSources # { } /\ ~decodeFailed) =>
        /\ pc = "returned"
        /\ successful_downloads = Cardinality(GoodSources)
        /\ Len(processed_clips) = Cardinality(GoodSources)

\* C6: len(processed_clips) <= successful_downloads <= n, during the run and
\* when it has returned.
C6_CountsOrdered ==
    /\ Len(processed_clips) <= successful_downloads
    /\ successful_downloads <= Len(urls)
    /\ Len(urls) <= n

C6_Witness ==
    /\ pc = "returned"
    /\ Len(processed_clips) < successful_downloads
    /\ successful_downloads < n

\* C7: download_and_convert ends with the no-downloads error exactly when
\* it reaches its final check (every source attempted, every worker stopped
\* and joined) with successful_downloads = 0; it is raised nowhere else,
\* and after it no output file is ever written.
C7_NoDownloadsError ==
    /\ error = "NoDownloads" =>
          /\ pc = "raised"
          /\ successful_downloads = 0
          /\ submitted = Len(urls)
          /\ \A u \in Sources : download_ok[u] = "False"
          /\ AllWorkersExited
          /\ outputWritten = 0
    /\ (DacEnded /\ AllWorkersExited /\ successful_downloads = 0) =>
          error = "NoDownloads"
    /\ (DacEnded /\ successful_downloads >= 1) => error = "none"

C7_Witness ==
    /\ error = "NoDownloads"
    /\ Len(urls) = n
    /\ papc = "returned"
    /\ outputWritten = 0

\* C8: when download_and_convert has returned or raised, the temporary
\* directory it created is gone and has been removed exactly once.
C8_DirectoryRemoved ==
    DacEnded => (~dirExists /\ removals = 1)

\* C9: when download_and_convert and process_audios have both ended, every
\* audio clip that was opened has been closed.
C9_HandlesReleased ==
    (DacEnded /\ PaEnded) => openHandles = 0

\* process_audios has reached its merge step (lines 251-267) and ended.
MergeEnded == PaEnded /\ paError # "FileNotFoundError"

ClipPaths == [i \in 1..Len(clips) |-> clips[i].path]

\* C10 as stated: with zero clips the merge step ends in an error and writes
\* nothing; otherwise, when it returns, all clips were merged and one output
\* file was written.
C10_NoClipsRaises ==
    MergeEnded =>
        /\ clips = << >> => (papc = "raised" /\ outputWritten = 0)
        /\ (clips # << >> /\ papc = "returned") =>
              (outputWritten = 1 /\ final_clip = ClipPaths)

\* C10 amended: with zero clips the merge step writes nothing and returns
\* normally, no error is raised; otherwise, when it returns, all clips were
\* merged in the order they were collected and exactly one output file was
\* written; when the merge or the write raises no output file is written.
\* download_and_convert returns as well whenever a download succeeded,
\* however many clips were processed.
C10_NoClipsReturns ==
    /\ MergeEnded =>
          /\ clips = << >> =>
                (papc = "returned" /\ paError = "none" /\ outputWritten = 0)
          /\ (clips # << >> /\ papc = "returned") =>
                (outputWritten = 1 /\ final_clip = ClipPaths)
          /\ papc = "raised" => (clips # << >> /\ outputWritten = 0)
    /\ outputWritten <= 1
    /\ (DacEnded /\ successful_downloads >= 1) => pc = "returned"

C10_Witness ==
    /\ papc = "returned"
    /\ mp3Files # << >>
    /\ clips = << >>
    /\ outputWritten = 0
    /\ pc = "returned"
    /\ processed_clips = << >>

\* The search of lines 113-120 has returned and found no source.
ZeroSources ==
    /\ pc \notin {"idle", "search"}
    /\ error # "SearchError"
    /\ Len(urls) = 0

\* C11 as the specification states it: when the search returns zero sources
\* the run fails with the resolution error before the pipeline is entered:
\* no processing worker is started, no download is dispatched.
C11_FailsBeforePipelining ==
    ZeroSources =>
        /\ started = 0
        /\ submitted = 0
        /\ DacEnded => (pc = "raised" /\ error = "ResolutionError")

\* C11: when the search returns zero sources, no download is ever dispatched
\* and the run never returns normally; the number of sources is not tested
\* before the pipeline: the loop that starts the workers is entered, and once
\* a worker has started every worker is started, stopped and joined, and the
\* run ends with the no-downloads error of the final check.
C11_ZeroSourcesEndInNoDownloads ==
    ZeroSources =>
        /\ submitted = 0
        /\ \A u \in UrlIds : dpc[u] = "unsubmitted" /\ fetches[u] = 0
        /\ pc # "returned"
        /\ pc = "raised" =>
              \/ started = 0 /\ error = "NameError"
              \/ /\ started = num_process_workers
                 /\ AllWorkersExited
                 /\ error = "NoDownloads"

C11_Witness ==
    /\ ZeroSources
    /\ pc = "raised"
    /\ error = "NoDownloads"
    /\ AllWorkersExited

\* main has found its parameters acceptable (lines 280-301 passed).
Accepted(a) ==
    /\ a.argc = 5
    /\ a.ints
    /\ a.num_videos > 10
    /\ a.audio_duration >= 20

\* C12: once main has run, it has ended with exit code 1 whenever the
\* parameter count is wrong, a number is no integer, the number of videos is
\* <= 10 or the clip length is < 20, and then nothing was searched, fetched
\* or created; only parameters with more than 10 videos and at least 20
\* seconds get past the validation.
C12_ValidatedBeforeWork ==
    mainState # "notrun" =>
        /\ ~Accepted(argv) => mainState = "exit1"
        /\ mainState # "exit1" => Accepted(argv)
        /\ pc = "idle" /\ papc = "idle"
        /\ urls = << >> /\ mp3Files = << >>
        /\ submitted = 0 /\ started = 0 /\ removals = 0
        /\ \A u \in UrlIds : fetches[u] = 0

C12_Witness ==
    /\ mainState = "exit1"
    /\ argv.argc = 5
    /\ argv.ints
    /\ argv.num_videos = 11
    /\ argv.audio_duration = 19

\* download_and_convert is over: it has returned or raised, every download
\* task that was submitted has returned, and every worker thread that was
\* started has left its loop.
PipelineTerminal ==
    /\ DacEnded
    /\ \A u \in UrlIds : dpc[u] \in {"unsubmitted", "done"}
    /\ \A w \in Workers : wpc[w] \in {"unstarted", "exited"}

\* C13: under fair scheduling, with every library call returning, each call
\* of download_and_convert leads to a state where it has returned or raised
\* with all its download tasks returned and all its workers exited; and it
\* never ends while a worker is still polling the queue.
C13_NeverHangs ==
    /\ (pc = "search") ~> PipelineTerminal
    /\ [](DacEnded => PipelineTerminal)

C13_Witness ==
    /\ PipelineTerminal
    /\ pc = "returned"
    /\ Len(urls) >= 2
    /\ decodeFailed
    /\ \A w \in Workers : wpc[w] = "exited"

\* min(a, b)
Min(a, b) == IF a <= b THEN a ELSE b

\* The clip was cut from its file to at most d seconds.
CutTo(clip, d) == clip.duration = Min(OrigDuration(clip.path), d)

\* C14: every clip in processed_clips, and every clip process_one_audio has
\* returned to process_audios, lasts min(original duration, clip seconds): a
\* longer source is cut to the clip seconds, a source that is not longer
\* keeps its own duration.
C14_ClipDurations ==
    /\ \A i \in 1..Len(processed_clips) : CutTo(processed_clips[i], globalDuration)
    /\ \A i \in 1..Len(clips) : CutTo(clips[i], TrimSeconds)

C14_Witness ==
    /\ \E i \in 1..Len(processed_clips) :
          /\ processed_clips[i].duration = globalDuration
          /\ OrigDuration(processed_clips[i].path) > globalDuration
    /\ \E i \in 1..Len(processed_clips) :
          /\ processed_clips[i].duration < globalDuration
          /\ OrigDuration(processed_clips[i].path) = processed_clips[i].duration
    /\ \E i \in 1..Len(clips) : clips[i].duration < OrigDuration(clips[i].path)

\* C15: a download task exists only once every worker thread has been
\* started; the orchestrator is past the executor block (putting stop
\* signals, or later) only when every source was submitted and every task
\* has returned; and it is past the joins only with every stop signal put
\* and every worker exited.
C15_PipeliningOrder ==
    /\ \A u \in UrlIds :
          dpc[u] # "unsubmitted" =>
              /\ started = num_process_workers
              /\ \A w \in Workers : wpc[w] # "unstarted"
    /\ (pc \in {"signal", "check", "returned"} \/ signalled > 0) =>
          /\ submitted = Len(urls)
          /\ AllTasksDone
    /\ (pc = "submit" \/ pc = "start_workers") => signalled = 0
    /\ pc \in {"check", "returned"} =>
          /\ signalled = num_process_workers
          /\ AllWorkersExited

C15_Witness ==
    /\ pc = "signal"
    /\ signalled = 1
    /\ submitted >= 2
    /\ \E w \in Workers : wpc[w] = "load"

\* The source of the stand-alone call fails retryably at every attempt.
AlwaysRetryable == \A a \in 0..(max_retries - 1) : Outcome(1, a) = "retryable"

\* C16: download_one never makes more than max_retries attempts, and on a
\* source that fails retryably at every attempt it returns False (a value,
\* the call has returned) after exactly max_retries attempts.
C16_RetryableExhausts ==
    /\ fetches[1] <= max_retries
    /\ (AlwaysRetryable /\ download_ok[1] # "pending") =>
          /\ download_ok[1] = "False"
          /\ dpc[1] = "done"
          /\ fetches[1] = max_retries

C16_Witness ==
    /\ AlwaysRetryable
    /\ max_retries >= 3
    /\ download_ok[1] = "False"
    /\ fetches[1] = max_retries

GivesUp(w) ==
    /\ wpc[w] = "load"
    /\ wpc'[w] \notin {"load", "lock"}

\* C18: a step in which the load or the cut of a file fails in worker w puts
\* w back at the queue (it has not exited), adds nothing to processed_clips,
\* takes nothing from and puts nothing on the queue, and changes no other
\* worker, no download task and not the orchestrator.
C18_FailureAbsorbed ==
    [][\A w \in Workers :
          GivesUp(w) =>
              /\ wpc'[w] = "get"
              /\ processed_clips' = processed_clips
              /\ decodedOk' = decodedOk
              /\ file_queue' = file_queue
              /\ \A v \in Workers \ {w} : wpc'[v] = wpc[v]
              /\ UNCHANGED << wfile, wclip, stopsTaken, processing_lock >>
              /\ UNCHANGED << taskVars, pc, error, successful_downloads >>]_vars

C18_Witness ==
    /\ decodeFailed
    /\ pc = "returned"
    /\ successful_downloads = 2
    /\ decodedOk = 1
    /\ Len(processed_clips) = 1
    /\ AllWorkersExited

\* The download_one call of task u returns False in this step.
Fails(u) ==
    /\ download_ok[u] = "pending"
    /\ download_ok'[u] = "False"

\* C19: the step in which a task's download_one returns False changes
\* neither successful_downloads nor file_queue nor any other shared variable
\* nor any other task; a task that has failed has returned without choosing
\* or queueing a file; and after a failure the run goes on: it raises only
\* at the final check, once every task has returned.
C19_FailureLeavesSharedState ==
    /\ [][\A u \in UrlIds :
            Fails(u) =>
                /\ UNCHANGED << successful_downloads, download_lock, file_queue,
                                unfinished_tasks, processed_clips, pc, error >>
                /\ UNCHANGED << mp3Files, submitted, latest_file, loaded >>
                /\ \A v \in UrlIds \ {u} :
                      dpc'[v] = dpc[v] /\ download_ok'[v] = download_ok[v]]_vars
    /\ [](\A u \in UrlIds :
            download_ok[u] = "False" =>
                /\ dpc[u] = "done"
                /\ latest_file[u] = None
                /\ pc = "raised" => (error = "NoDownloads" /\ AllTasksDone))

C19_Witness ==
    /\ download_ok[1] = "False"
    /\ download_ok[2] = "True"
    /\ dpc[2] = "done"
    /\ successful_downloads = 1
    /\ Len(file_queue) = 1
    /\ pc = "submit"

\* The download tasks are over (the executor block of lines 185-187 is left).
DownloadsOver == pc \in {"signal", "check", "returned"} \/ error = "NoDownloads"

\* The worker threads are over (the joins of lines 194-195 have returned).
WorkersOver == pc \in {"check", "returned"} \/ error = "NoDownloads"

\* C20: no update of a shared counter is lost: once the download tasks are
\* over successful_downloads is the number of download_one calls that
\* returned True, and once the workers are over len(processed_clips) is the
\* number of files loaded and cut with success; a thread is between the read
\* and the write of a shared value exactly while it holds that value's lock,
\* and a lock is held at no other position (no fetch, load, get or put).
C20_NoLostUpdates ==
    /\ \A u \in UrlIds : dpc[u] = "inc" <=> download_lock = u
    /\ \A w \in Workers : wpc[w] = "append" <=> processing_lock = w
    /\ download_lock \in UrlIds \cup {NoLock}
    /\ processing_lock \in Workers \cup {NoLock}
    /\ DownloadsOver =>
          successful_downloads =
              Cardinality({ u \in Sources : download_ok[u] = "True" })
    /\ WorkersOver => Len(processed_clips) = decodedOk

C20_Witness ==
    /\ pc = "returned"
    /\ successful_downloads = 2
    /\ decodedOk = 2
    /\ Len(processed_clips) = 2
====
